---- MODULE Spec2Model ----
(***************************************************************************)
(* A model of atf-c/tc.c: the test-case object, the per-run execution      *)
(* context, the outcome primitives (pass / fail / fail_check / skip /      *)
(* require_prog), the result-file writer and the run driver.               *)
(*                                                                         *)
(* The C functions are modelled as operators over the process state p (a   *)
(* record holding the values of all the variables); an action applies the  *)
(* operator of one public entry point to the current state.  A function    *)
(* that ends the process (exit, abort) sets p.pc, and every later          *)
(* statement of the C code is skipped once the process is no longer alive. *)
(***************************************************************************)
EXTENDS Integers, Sequences, FiniteSets, TLC

VARIABLES
    pc,        \* where the process is: "new" (no test case yet), "ready" (test
               \* case constructed, no run yet), "init_failed" (atf_tc_init
               \* returned an error), "body" (inside tc->m_body), "returned"
               \* (atf_tc_run returned), "finished" (atf_tc_fini has released
               \* the test case), "exited", "aborted"
    status,    \* the process exit status: "none" while it lives
    tc,        \* the atf_tc_t object
    Current,   \* static struct context Current
    files,     \* the filesystem: path -> sequence of chunks written
    stdout,    \* the chunks written to the process's standard output
    stderr,    \* the chunks written to the process's standard error
    env,       \* the environment: PATH and the set of executable paths
    io,        \* what the collaborators have done: fopen/fclose counts, open
               \* handles, reasons created and released, eaccess log
    call       \* the public function entered last: its name, its argument,
               \* what it returned, and how many the body has entered so far

vars == <<pc, status, tc, Current, files, stdout, stderr, env, io, call>>

----------------------------------------------------------------------------
(* Bounds of the model. *)

\* The number of outcome-primitive calls a body makes before it returns.
MaxCalls == 2

\* The number of directories of PATH whose probe may be the failing operation.
MaxDirs == 2

\* The number of times the harness runs the cleanup callback of a test case.
MaxCleanups == 1

\* The width of C's int, scaled down: "%d" prints a two's complement value of
\* IntBits bits.
IntBits == 2

\* The width of size_t, scaled down but wider than int (as on LP64).
SizeBits == 4

----------------------------------------------------------------------------
(* Values. *)

NULL == "NULL"
OK == "no_error"

RECURSIVE Pow2(_)
Pow2(n) == IF n = 0 THEN 1 ELSE 2 * Pow2(n - 1)

\* The concatenation of a sequence of strings.
RECURSIVE Concat(_)
Concat(q) == IF q = <<>> THEN "" ELSE Head(q) \o Concat(Tail(q))

\* The inputs of the model.
Idents == {"tc1", "tc2"}
\* The identifier of the test case that is run.
RunIdent == "tc1"
ResFileName == "res.txt"
ResFiles == {"/dev/stdout", "/dev/stderr", ResFileName}
Fmts == {"X"}
\* (source_file, source_line) pairs a caller may pass.
Locations == {<<"t.c", 7>>}
OldContents == {<<>>, <<"passed\n">>}

\* int errno values (ENOENT, EACCES): the values errno may have, and the
\* values a caller expects.
Errnos == {2, 13}
ExpErrnos == {2}
ExprStr == "f() == -1"

\* A path is the sequence of its pieces, "/" being a piece of its own; a PATH
\* value is a sequence of pieces, ":" being a piece of its own.
Progs == { <<"/", "bin", "/", "ls">>, <<"ls">>, <<"sub", "/", "ls">> }
PathValues == { <<>>,
                <<"/d1", ":", "/d2">>,
                <<":", "/d2", ":", ":", "/d1">>,
                <<"/d1", ":", "/d1">> }
ExecSets == { {}, {"/d2/ls"}, {"/d1/ls", "/bin/ls"},
              {"/d1/ls", "/d2/ls", "/bin/ls"} }

\* The one operation of a call that fails, if any: an allocation inside one
\* of the collaborators that return atf_error_t, or a step of the I/O on the
\* result destination.  k tells which directory of the search is concerned.
Sites == {"none", "format_reason", "reason_append", "fopen", "fprintf",
          "fprintf_partial", "fclose", "path_init", "branch_path",
          "for_each_word", "dir_path_init", "dir_path_init_crash",
          "map_init", "set_ident", "set_has_cleanup"}
Fault(site, k) == [site |-> site, k |-> k]
NoFault == Fault("none", 0)

----------------------------------------------------------------------------
(* The process state as one value, and its assignment to the variables. *)

Self == [pc |-> pc, status |-> status, tc |-> tc, Current |-> Current,
         files |-> files, stdout |-> stdout, stderr |-> stderr,
         env |-> env, io |-> io, call |-> call]

Becomes(p) ==
    /\ pc' = p.pc
    /\ status' = p.status
    /\ tc' = p.tc
    /\ Current' = p.Current
    /\ files' = p.files
    /\ stdout' = p.stdout
    /\ stderr' = p.stderr
    /\ env' = p.env
    /\ io' = p.io
    /\ call' = p.call

Starts(p) ==
    /\ pc = p.pc
    /\ status = p.status
    /\ tc = p.tc
    /\ Current = p.Current
    /\ files = p.files
    /\ stdout = p.stdout
    /\ stderr = p.stderr
    /\ env = p.env
    /\ io = p.io
    /\ call = p.call

\* The process runs: exit() and abort() have not been called.
Alive(p) == p.pc \notin {"exited", "aborted"}

\* exit(3).
exit(p, code) ==
    IF Alive(p) THEN [p EXCEPT !.pc = "exited", !.status = code] ELSE p

\* abort(3).
abort(p) ==
    IF Alive(p) THEN [p EXCEPT !.pc = "aborted", !.status = "SIGABRT"] ELSE p

----------------------------------------------------------------------------
(* Auxiliary functions. *)

context_init(p, t, resfile) ==
    [p EXCEPT !.Current = [tc |-> t, resfile |-> resfile, fail_count |-> 0]]

check_fatal_error(p, e) ==
    IF Alive(p) /\ e # OK
    THEN abort([p EXCEPT !.stderr = Append(@, "FATAL ERROR: " \o e \o "\n")])
    ELSE p

\* PRE(x) of atf-c/detail/sanity.h: a precondition that does not hold is
\* reported on stderr and the process aborts.
PRE(p, x) ==
    IF Alive(p) /\ ~x
    THEN abort([p EXCEPT !.stderr = Append(@, "Precondition check failed\n")])
    ELSE p

\* INV(x) of atf-c/detail/sanity.h: as PRE, for an invariant.
INV(p, x) ==
    IF Alive(p) /\ ~x
    THEN abort([p EXCEPT !.stderr = Append(@, "Invariant check failed\n")])
    ELSE p

\* report_fatal_error with the abort() left out.
report_fatal_error_noabort(p, msg) ==
    IF Alive(p)
    THEN [p EXCEPT !.stderr = @ \o <<"FATAL ERROR: ", msg, "\n">>]
    ELSE p

report_fatal_error(p, msg) ==
    IF Alive(p)
    THEN abort([p EXCEPT !.stderr = @ \o <<"FATAL ERROR: ", msg, "\n">>])
    ELSE p

\* The text fprintf produces for a record.
Line(result, reason) ==
    IF reason = NULL THEN result \o "\n"
    ELSE result \o ": " \o reason \o "\n"

\* write_resfile on a stream holding the chunks `content`: the stream after
\* the call and the error returned.  A failing fprintf may have put out a
\* part of the text.
write_resfile(content, result, reason, f) ==
    IF f.site = "fprintf"
    THEN [content |-> content, err |-> "Failed to write results file"]
    ELSE IF f.site = "fprintf_partial"
    THEN [content |-> Append(content, result),
          err |-> "Failed to write results file"]
    ELSE [content |-> Append(content, Line(result, reason)), err |-> OK]

\* create_resfile leaving the file open when write_resfile fails.
create_resfile_leak(p, result, reason, f) ==
    IF ~Alive(p) THEN p
    ELSE
    LET resfile == p.Current.resfile
        q == [p EXCEPT !.io.resfile_calls = @ + 1,
                       !.io.record = <<result, reason>>]
        fini(r) == IF reason # NULL
                   THEN [r EXCEPT !.io.dynstr_finis = @ + 1] ELSE r
    IN  IF resfile = "/dev/stdout"
        THEN LET w == write_resfile(q.stdout, result, reason, f)
             IN  check_fatal_error(fini([q EXCEPT !.stdout = w.content]),
                                   w.err)
        ELSE IF resfile = "/dev/stderr"
        THEN LET w == write_resfile(q.stderr, result, reason, f)
             IN  check_fatal_error(fini([q EXCEPT !.stderr = w.content]),
                                   w.err)
        ELSE IF f.site = "fopen"
        THEN check_fatal_error(fini(q), "Cannot create results file")
        ELSE LET w == write_resfile(<<>>, result, reason, f)
                 flushed == IF f.site = "fclose" THEN <<>> ELSE w.content
                 opened == [q EXCEPT !.io.fopens = @ + 1,
                                     !.io.open = @ \cup {"file"},
                                     !.files[resfile] = <<>>]
                 closed == [opened EXCEPT !.files[resfile] = flushed,
                                          !.io.fcloses = @ + 1,
                                          !.io.open = @ \ {"file"}]
             IN  check_fatal_error(
                     fini(IF w.err # OK THEN opened ELSE closed), w.err)

\* create_resfile: the record goes to the process stream for the two
\* sentinel paths and to a file opened with "w" (created or truncated)
\* otherwise.  fprintf on the file fills the FILE's buffer; fclose writes the
\* buffer out and its return value is not looked at.
create_resfile(p, result, reason, f) ==
    IF ~Alive(p) THEN p
    ELSE
    LET resfile == p.Current.resfile
        q == [p EXCEPT !.io.resfile_calls = @ + 1,
                       !.io.record = <<result, reason>>]
        \* if (reason != NULL) atf_dynstr_fini(reason);
        fini(r) == IF reason # NULL
                   THEN [r EXCEPT !.io.dynstr_finis = @ + 1] ELSE r
    IN  IF resfile = "/dev/stdout"
        THEN LET w == write_resfile(q.stdout, result, reason, f)
             IN  check_fatal_error(fini([q EXCEPT !.stdout = w.content]),
                                   w.err)
        ELSE IF resfile = "/dev/stderr"
        THEN LET w == write_resfile(q.stderr, result, reason, f)
             IN  check_fatal_error(fini([q EXCEPT !.stderr = w.content]),
                                   w.err)
        ELSE IF f.site = "fopen"
        THEN check_fatal_error(fini(q), "Cannot create results file")
        ELSE LET w == write_resfile(<<>>, result, reason, f)
                 flushed == IF f.site = "fclose" THEN <<>> ELSE w.content
                 opened == [q EXCEPT !.io.fopens = @ + 1,
                                     !.io.open = @ \cup {"file"}]
                 closed == [opened EXCEPT !.files[resfile] = flushed,
                                          !.io.fcloses = @ + 1,
                                          !.io.open = @ \ {"file"}]
             IN  check_fatal_error(fini(closed), w.err)

\* fail_requirement with the exit() left out.
fail_requirement_noexit(p, reason, f) ==
    create_resfile(p, "failed", reason, f)

fail_requirement(p, reason, f) ==
    exit(create_resfile(p, "failed", reason, f), "EXIT_FAILURE")

\* fail_check without the increment of the counter.
fail_check_nocount(p, reason, f) ==
    IF ~Alive(p) THEN p
    ELSE [p EXCEPT
            !.stderr = Append(@, "*** Check failed: " \o reason \o "\n"),
            !.io.dynstr_finis = @ + 1]

\* fail_check without the line on stderr.
fail_check_silent(p, reason, f) ==
    IF ~Alive(p) THEN p
    ELSE [p EXCEPT !.io.dynstr_finis = @ + 1,
                   !.Current.fail_count = (@ + 1) % Pow2(SizeBits)]

fail_check(p, reason, f) ==
    IF ~Alive(p) THEN p
    ELSE [p EXCEPT
            !.stderr = Append(@, "*** Check failed: " \o reason \o "\n"),
            !.io.dynstr_finis = @ + 1,
            !.Current.fail_count = (@ + 1) % Pow2(SizeBits)]

\* pass with the exit() left out.
pass_noexit(p, f) == create_resfile(p, "passed", NULL, f)

pass(p, f) ==
    exit(create_resfile(p, "passed", NULL, f), "EXIT_SUCCESS")

\* skip reporting a failure.
skip_as_fail(p, reason, f) ==
    exit(create_resfile(p, "failed", reason, f), "EXIT_FAILURE")

skip(p, reason, f) ==
    exit(create_resfile(p, "skipped", reason, f), "EXIT_SUCCESS")

\* The text of a reason: "<file>:<line>: " before the message when the caller
\* gives a source file.
ReasonText(source_file, source_line, msg) ==
    IF source_file # NULL
    THEN source_file \o ":" \o ToString(source_line) \o ": " \o msg
    ELSE msg

\* format_reason_ap: an error of the string functions is fatal.  When
\* atf_dynstr_init(_fmt) fails out_reason is not initialised; when it succeeds
\* out_reason is an initialised string, also if atf_dynstr_append_ap then
\* fails.
format_reason_ap(p, f) ==
    IF ~Alive(p) THEN p
    ELSE IF f.site = "format_reason" THEN check_fatal_error(p, "no_memory")
    ELSE check_fatal_error([p EXCEPT !.io.dynstr_inits = @ + 1],
             IF f.site = "reason_append" THEN "no_memory" ELSE OK)

format_reason_fmt(p, f) == format_reason_ap(p, f)

\* What "%d" prints for a size_t argument: the low IntBits bits of the value
\* read as a two's complement int.
PrintfD(n) ==
    LET low == n % Pow2(IntBits)
    IN  IF low >= Pow2(IntBits - 1) THEN low - Pow2(IntBits) ELSE low

\* errno_test without the comparison of errno.
errno_test_noerrno(p, file, line, exp_errno, expr_str, expr_result, actual_errno, fail_func, f) ==
    LET call_fail_func(q, reason) ==
            IF fail_func = "fail_check" THEN fail_check(q, reason, f)
            ELSE fail_requirement(q, reason, f)
    IN
    IF expr_result THEN p
    ELSE call_fail_func(format_reason_fmt(p, f),
             ReasonText(file, line, "Expected true value in " \o expr_str))

\* fail_func is the function errno_test is given: fail_check or
\* fail_requirement.
errno_test(p, file, line, exp_errno, expr_str, expr_result, actual_errno, fail_func, f) ==
    LET call_fail_func(q, reason) ==
            IF fail_func = "fail_check" THEN fail_check(q, reason, f)
            ELSE fail_requirement(q, reason, f)
    IN
    IF expr_result
    THEN IF exp_errno # actual_errno
         THEN call_fail_func(format_reason_fmt(p, f),
                  ReasonText(file, line,
                      "Expected errno " \o ToString(exp_errno) \o ", got "
                      \o ToString(actual_errno) \o ", in " \o expr_str))
         ELSE p
    ELSE call_fail_func(format_reason_fmt(p, f),
             ReasonText(file, line, "Expected true value in " \o expr_str))

----------------------------------------------------------------------------
(* The collaborators of the program search: atf-c/fs, atf-c/env and        *)
(* atf-c/text, by their contracts.                                         *)

atf_fs_path_cstring(path) == Concat(path)

atf_fs_path_is_absolute(path) == path # <<>> /\ path[1] = "/"

\* The position of the last "/" of a path, 0 when it has none.
LastSlash(path) ==
    LET at == {i \in 1..Len(path) : path[i] = "/"}
    IN  IF at = {} THEN 0 ELSE CHOOSE i \in at : \A j \in at : j <= i

atf_fs_path_branch_path(path) ==
    IF LastSlash(path) = 0 THEN <<".">>
    ELSE IF LastSlash(path) = 1 THEN <<"/">>
    ELSE SubSeq(path, 1, LastSlash(path) - 1)

\* atf_fs_eaccess(path, atf_fs_access_x): whether it returns no error.
atf_fs_eaccess(p, path) == path \in p.env.execs

atf_env_get(p, name) == p.env[name]

\* The words of a text, in order: the non-empty runs of pieces between
\* separators.
RECURSIVE SplitWords(_, _, _)
SplitWords(text, sep, word) ==
    IF text = <<>> THEN (IF word = "" THEN <<>> ELSE <<word>>)
    ELSE IF Head(text) = sep
    THEN (IF word = "" THEN <<>> ELSE <<word>>)
         \o SplitWords(Tail(text), sep, "")
    ELSE SplitWords(Tail(text), sep, word \o Head(text))

----------------------------------------------------------------------------
(* The program search. *)

\* A signal other than SIGABRT ends the process.
crash(p) ==
    IF Alive(p) THEN [p EXCEPT !.pc = "aborted", !.status = "SIGSEGV"] ELSE p

\* check_prog_in_dir without the test of pf->found.
check_prog_in_dir_nostop(p, dir, pf, f, k) ==
    LET p1 == [p EXCEPT !.io.dir_calls = @ + 1]
        failed == [p1 EXCEPT !.io.dir_errors = @ + 1]
    IN
    IF f.site = "dir_path_init" /\ f.k = k
    THEN [p |-> failed, pf |-> pf, err |-> "no_memory"]
    ELSE IF f.site = "dir_path_init_crash" /\ f.k = k
    THEN [p |-> crash(failed), pf |-> pf, err |-> "no_memory"]
    ELSE LET path == dir \o "/" \o pf.prog
             q == [p1 EXCEPT !.io.probes = Append(@, path)]
         IN  IF atf_fs_eaccess(q, path)
             THEN [p |-> q, pf |-> [pf EXCEPT !.found = TRUE], err |-> OK]
             ELSE [p |-> q, pf |-> pf, err |-> OK]

\* check_prog_in_dir as the callback of the k-th word: the process state
\* (the log of eaccess calls), the prog_found_pair and the error returned.
\* io.dir_calls counts the calls of the callback and io.dir_errors those that
\* return an error.  When atf_fs_path_init_fmt fails, "goto out_p" hands the
\* uninitialised p to atf_fs_path_fini: the call returns the error, or the
\* process dies in atf_fs_path_fini.
check_prog_in_dir(p, dir, pf, f, k) ==
    LET p1 == [p EXCEPT !.io.dir_calls = @ + 1]
        failed == [p1 EXCEPT !.io.dir_errors = @ + 1]
    IN
    IF pf.found
    THEN [p |-> p1, pf |-> pf, err |-> OK]
    ELSE IF f.site = "dir_path_init" /\ f.k = k
    THEN [p |-> failed, pf |-> pf, err |-> "no_memory"]
    ELSE IF f.site = "dir_path_init_crash" /\ f.k = k
    THEN [p |-> crash(failed), pf |-> pf, err |-> "no_memory"]
    ELSE LET path == dir \o "/" \o pf.prog
             q == [p1 EXCEPT !.io.probes = Append(@, path)]
         IN  IF atf_fs_eaccess(q, path)
             THEN [p |-> q, pf |-> [pf EXCEPT !.found = TRUE], err |-> OK]
             ELSE [p |-> q, pf |-> pf, err |-> OK]

\* atf_text_for_each_word: the callback once per word, in order, stopping at
\* the first error.
RECURSIVE atf_text_for_each_word(_, _, _, _, _)
atf_text_for_each_word(p, words, pf, f, k) ==
    IF words = <<>> THEN [p |-> p, pf |-> pf, err |-> OK]
    ELSE LET r == check_prog_in_dir(p, Head(words), pf, f, k)
         IN  IF r.err # OK THEN r
             ELSE atf_text_for_each_word(r.p, Tail(words), r.pf, f, k + 1)

\* check_prog: the process state and the error returned.  io.probes and
\* io.getenv log the eaccess and atf_env_get calls of this call.
check_prog(p0, prog, f) ==
    LET p == [p0 EXCEPT !.io.probes = <<>>, !.io.getenv = 0,
                        !.io.dir_calls = 0, !.io.dir_errors = 0]
        name == atf_fs_path_cstring(prog)
    IN
    IF ~Alive(p) THEN [p |-> p0, err |-> OK]
    ELSE IF f.site = "path_init" THEN [p |-> p, err |-> "no_memory"]
    ELSE IF atf_fs_path_is_absolute(prog)
    THEN LET q == [p EXCEPT !.io.probes = Append(@, name)]
         IN  IF ~atf_fs_eaccess(q, name)
             THEN [p |-> skip(format_reason_fmt(q, f),
                              "The required program " \o name
                                  \o " could not be found", f),
                   err |-> OK]
             ELSE [p |-> q, err |-> OK]
    ELSE LET path == atf_env_get(p, "PATH")
             q == [p EXCEPT !.io.getenv = @ + 1]
         IN  IF f.site = "branch_path" THEN [p |-> q, err |-> "no_memory"]
             ELSE IF atf_fs_path_cstring(atf_fs_path_branch_path(prog)) # "."
             THEN [p |-> report_fatal_error(q,
                            "Relative paths are not allowed when searching "
                            \o "for a program (" \o name \o ")"),
                   err |-> OK]
             ELSE IF f.site = "for_each_word"
             THEN [p |-> q, err |-> "no_memory"]
             ELSE LET r == atf_text_for_each_word(q,
                               SplitWords(path, ":", ""),
                               [prog |-> name, found |-> FALSE], f, 1)
                  IN  IF r.err # OK THEN [p |-> r.p, err |-> r.err]
                      ELSE IF ~r.pf.found
                      THEN [p |-> fail_requirement(
                                      format_reason_fmt(r.p, f),
                                      "The required program " \o name
                                          \o " could not be found in the PATH",
                                      f),
                            err |-> OK]
                      ELSE [p |-> r.p, err |-> OK]

----------------------------------------------------------------------------
(* The "atf_tc" type. *)

\* A head callback is NULL or the sequence of atf_tc_set_md_var calls it
\* makes; a configuration is NULL or a map.
NullHead == [null |-> TRUE, sets |-> <<>>]
HeadOf(sets) == [null |-> FALSE, sets |-> sets]
Heads == { NullHead,
           HeadOf(<<<<"descr", "d">>>>),
           HeadOf(<<<<"ident", "tc1">>>>),
           HeadOf(<<<<"descr", "d">>, <<"ident", "other">>>>),
           HeadOf(<<<<"has.cleanup", "true">>>>),
           HeadOf(<<<<"has.cleanup", "false">>>>) }
Cleanups == {NULL, "cleanup"}
EmptyMap == [k \in {} |-> NULL]
NullConfig == [null |-> TRUE, map |-> EmptyMap]
ConfigOf(map) == [null |-> FALSE, map |-> map]
Configs == { NullConfig, ConfigOf(EmptyMap),
             ConfigOf([k \in {"key"} |-> "value"]) }

\* atf_map_insert: the map with the key set.
atf_map_insert(m, name, value) ==
    [k \in DOMAIN m \cup {name} |-> IF k = name THEN value ELSE m[k]]

\* atf_tc_set_md_var without an error: the object with the variable set.
atf_tc_set_md_var(t, name, value) ==
    [t EXCEPT !.m_vars = atf_map_insert(@, name, value)]

atf_tc_has_md_var(t, name) == name \in DOMAIN t.m_vars

\* atf_tc_get_md_var reading the object's field instead of the map.
atf_tc_get_md_var_stale(t, name) == t.m_ident

atf_tc_get_md_var(t, name) == t.m_vars[name]

\* Running a head callback on the object.
RECURSIVE RunHead(_, _)
RunHead(t, head) ==
    IF head = <<>> THEN t
    ELSE RunHead(atf_tc_set_md_var(t, Head(head)[1], Head(head)[2]),
                 Tail(head))

\* The object before atf_tc_init.
NoTc == [m_ident |-> NULL, m_head |-> NullHead, m_body |-> NULL,
         m_cleanup |-> NULL, m_config |-> NullConfig, m_vars |-> EmptyMap,
         map |-> "none"]

\* atf_tc_init leaving by `err` instead of `err_map` when setting `ident`
\* fails.
atf_tc_init_leak(p, ident, head, body, cleanup, config, f) ==
    LET t0 == [m_ident |-> ident, m_head |-> head, m_body |-> body,
               m_cleanup |-> cleanup, m_config |-> config,
               m_vars |-> EmptyMap, map |-> "none"]
        t1 == [t0 EXCEPT !.map = "live"]
        t2 == atf_tc_set_md_var(t1, "ident", ident)
        t3 == IF cleanup # NULL
              THEN atf_tc_set_md_var(t2, "has.cleanup", "true") ELSE t2
        t4 == IF ~head.null THEN RunHead(t3, head.sets) ELSE t3
        released(t) == [t EXCEPT !.m_vars = EmptyMap, !.map = "released"]
        \* if (tc->m_head != NULL) tc->m_head(tc);
        q == IF ~head.null THEN [p EXCEPT !.io.head_calls = @ + 1] ELSE p
    IN  IF f.site = "map_init"
        THEN [p |-> [p EXCEPT !.tc = t0], err |-> "no_memory"]
        ELSE IF f.site = "set_ident"
        THEN [p |-> [p EXCEPT !.tc = t1], err |-> "no_memory"]
        ELSE IF f.site = "set_has_cleanup" /\ cleanup # NULL
        THEN [p |-> [p EXCEPT !.tc = released(t2)], err |-> "no_memory"]
        ELSE IF atf_tc_get_md_var(t4, "ident") # ident
        THEN [p |-> report_fatal_error([q EXCEPT !.tc = t4],
                        "Test case head modified the read-only 'ident' "
                        \o "property"),
              err |-> OK]
        ELSE [p |-> [q EXCEPT !.tc = t4], err |-> OK]

\* atf_tc_init: the process state and the error returned.  tc.map tells
\* whether m_vars is initialised ("live"), released ("released") or was never
\* initialised ("none").
atf_tc_init(p, ident, head, body, cleanup, config, f) ==
    LET t0 == [m_ident |-> ident, m_head |-> head, m_body |-> body,
               m_cleanup |-> cleanup, m_config |-> config,
               m_vars |-> EmptyMap, map |-> "none"]
        t1 == [t0 EXCEPT !.map = "live"]
        t2 == atf_tc_set_md_var(t1, "ident", ident)
        t3 == IF cleanup # NULL
              THEN atf_tc_set_md_var(t2, "has.cleanup", "true") ELSE t2
        t4 == IF ~head.null THEN RunHead(t3, head.sets) ELSE t3
        released(t) == [t EXCEPT !.m_vars = EmptyMap, !.map = "released"]
        \* if (tc->m_head != NULL) tc->m_head(tc);
        q == IF ~head.null THEN [p EXCEPT !.io.head_calls = @ + 1] ELSE p
    IN  IF f.site = "map_init"
        THEN [p |-> [p EXCEPT !.tc = t0], err |-> "no_memory"]
        ELSE IF f.site = "set_ident"
        THEN [p |-> [p EXCEPT !.tc = released(t1)], err |-> "no_memory"]
        ELSE IF f.site = "set_has_cleanup" /\ cleanup # NULL
        THEN [p |-> [p EXCEPT !.tc = released(t2)], err |-> "no_memory"]
        ELSE IF atf_tc_get_md_var(t4, "ident") # ident
        THEN [p |-> report_fatal_error([q EXCEPT !.tc = t4],
                        "Test case head modified the read-only 'ident' "
                        \o "property"),
              err |-> OK]
        ELSE [p |-> [q EXCEPT !.tc = t4], err |-> OK]

\* atf_tc_fini: the object with its metadata store released.
atf_tc_fini(t) == [t EXCEPT !.m_vars = EmptyMap, !.map = "released"]

atf_tc_get_ident(t) == t.m_ident

\* The names and the default values a caller asks for.
ConfigKeys == {"key", "other"}
Defaults == {"dflt"}

\* atf_tc_has_config_var taking every present configuration to hold the
\* variable.
atf_tc_has_config_var_present(t, name) == ~t.m_config.null

atf_tc_has_config_var(t, name) ==
    IF t.m_config.null THEN FALSE
    ELSE name \in DOMAIN t.m_config.map

\* atf_tc_get_config_var: the process state and the value returned.
atf_tc_get_config_var(p, t, name) ==
    LET q == PRE(p, atf_tc_has_config_var(t, name))
        val == IF ~t.m_config.null /\ name \in DOMAIN t.m_config.map
               THEN t.m_config.map[name] ELSE NULL
        r == INV(q, val # NULL)
    IN  [p |-> r, val |-> IF Alive(r) THEN val ELSE NULL]

atf_tc_get_config_var_wd(p, t, name, defval) ==
    IF ~atf_tc_has_config_var(t, name)
    THEN [p |-> p, val |-> defval]
    ELSE atf_tc_get_config_var(p, t, name)

----------------------------------------------------------------------------
(* Free functions, taking the context. *)

_atf_tc_fail(p, fmt, f) ==
    fail_requirement(format_reason_ap(p, f), ReasonText(NULL, 0, fmt), f)

_atf_tc_fail_nonfatal(p, fmt, f) ==
    fail_check(format_reason_ap(p, f), ReasonText(NULL, 0, fmt), f)

_atf_tc_fail_check(p, file, line, fmt, f) ==
    fail_check(format_reason_ap(p, f), ReasonText(file, line, fmt), f)

_atf_tc_fail_requirement(p, file, line, fmt, f) ==
    fail_requirement(format_reason_ap(p, f), ReasonText(file, line, fmt), f)

\* _atf_tc_pass reducing the counter as atf_tc_run does.
_atf_tc_pass_counted(p, f) ==
    IF p.Current.fail_count = 0 THEN pass(p, f)
    ELSE fail_requirement(format_reason_fmt(p, f),
             ToString(PrintfD(p.Current.fail_count))
                 \o " checks failed; see output for more details", f)

_atf_tc_pass(p, f) == pass(p, f)

_atf_tc_require_prog(p, prog, f) ==
    LET r == check_prog(p, prog, f) IN check_fatal_error(r.p, r.err)

_atf_tc_skip(p, fmt, f) ==
    skip(format_reason_ap(p, f), ReasonText(NULL, 0, fmt), f)

_atf_tc_check_errno(p, file, line, exp_errno, expr_str, expr_result, actual_errno, f) ==
    errno_test(p, file, line, exp_errno, expr_str, expr_result, actual_errno,
               "fail_check", f)

_atf_tc_require_errno(p, file, line, exp_errno, expr_str, expr_result, actual_errno, f) ==
    errno_test(p, file, line, exp_errno, expr_str, expr_result, actual_errno,
               "fail_requirement", f)

----------------------------------------------------------------------------
(* The run driver and the public outcome primitives, as actions. *)

IOFaults == {Fault(s, 0) : s \in {"none", "fopen", "fprintf",
                                  "fprintf_partial", "fclose"}}
ReasonFaults == IOFaults \cup {Fault("format_reason", 0),
                             Fault("reason_append", 0)}
CheckFaults == {NoFault, Fault("format_reason", 0),
                Fault("reason_append", 0)}
ProgFaults == ReasonFaults
              \cup {Fault(s, 0) : s \in {"path_init", "branch_path",
                                         "for_each_word"}}
              \cup {Fault(s, k) : s \in {"dir_path_init",
                                         "dir_path_init_crash"},
                                  k \in 1..MaxDirs}

\* Entering a public function from the body.
Enter(p, name, arg) ==
    [p EXCEPT !.call = [name |-> name, n |-> @.n + 1, arg |-> arg,
                        ret |-> NULL]]

InBody == pc = "body" /\ call.n < MaxCalls

\* A public function can be called from the body of a run, and by a program
\* that has a test case and has not run it.
CanCall == InBody \/ pc = "ready"

\* Entering a public function that does not test Current.tc.
Entered_nopre(p, name, arg) == Enter(p, name, arg)

\* PRE(Current.tc != NULL), the first statement of every public function
\* that depends on Current.
Entered(p, name, arg) == PRE(Enter(p, name, arg), p.Current.tc # NULL)

\* atf_tc_run up to the call of the body.
atf_tc_run ==
    /\ pc = "ready"
    /\ \E resfile \in ResFiles :
          Becomes([context_init(Self, tc.m_ident, resfile)
                       EXCEPT !.pc = "body",
                              !.call = [name |-> "atf_tc_run", n |-> 0,
                                        arg |-> <<>>, ret |-> NULL]])

\* The rest of atf_tc_run, once the body has returned.
RunReduce(p, f) ==
    LET q == IF p.Current.fail_count = 0
             THEN pass(p, f)
             ELSE fail_requirement(format_reason_fmt(p, f),
                      ToString(PrintfD(p.Current.fail_count))
                          \o " checks failed; see output for more details",
                      f)
    IN  IF Alive(q) THEN [q EXCEPT !.pc = "returned"] ELSE q

BodyReturn ==
    /\ pc = "body"
    /\ \E f \in ReasonFaults :
          Becomes(RunReduce([Self EXCEPT !.call.name = "return"], f))

atf_tc_fail ==
    /\ CanCall
    /\ \E fmt \in Fmts, f \in ReasonFaults :
          Becomes(_atf_tc_fail(Entered(Self, "atf_tc_fail", <<>>), fmt, f))

atf_tc_fail_nonfatal ==
    /\ CanCall
    /\ \E fmt \in Fmts, f \in CheckFaults :
          Becomes(_atf_tc_fail_nonfatal(
                      Entered(Self, "atf_tc_fail_nonfatal", <<>>), fmt, f))

atf_tc_fail_check ==
    /\ CanCall
    /\ \E loc \in Locations, fmt \in Fmts, f \in CheckFaults :
          Becomes(_atf_tc_fail_check(
                      Entered(Self, "atf_tc_fail_check", <<>>),
                      loc[1], loc[2], fmt, f))

atf_tc_fail_requirement ==
    /\ CanCall
    /\ \E loc \in Locations, fmt \in Fmts, f \in ReasonFaults :
          Becomes(_atf_tc_fail_requirement(
                      Entered(Self, "atf_tc_fail_requirement", <<>>),
                      loc[1], loc[2], fmt, f))

atf_tc_pass ==
    /\ CanCall
    /\ \E f \in IOFaults :
          Becomes(_atf_tc_pass(Entered(Self, "atf_tc_pass", <<>>), f))

atf_tc_require_prog ==
    /\ CanCall
    /\ \E prog \in Progs, f \in ProgFaults :
          Becomes(_atf_tc_require_prog(
                      Entered(Self, "atf_tc_require_prog", prog), prog, f))

atf_tc_skip ==
    /\ CanCall
    /\ \E fmt \in Fmts, f \in ReasonFaults :
          Becomes(_atf_tc_skip(Entered(Self, "atf_tc_skip", <<>>), fmt, f))

atf_tc_check_errno ==
    /\ CanCall
    /\ \E loc \in Locations, exp_errno \in ExpErrnos, actual_errno \in Errnos,
          expr_result \in BOOLEAN, f \in CheckFaults :
          Becomes(_atf_tc_check_errno(
                      Entered(Self, "atf_tc_check_errno",
                              <<exp_errno, actual_errno, expr_result>>),
                      loc[1], loc[2], exp_errno, ExprStr, expr_result,
                      actual_errno, f))

atf_tc_require_errno ==
    /\ CanCall
    /\ \E loc \in Locations, exp_errno \in ExpErrnos, actual_errno \in Errnos,
          expr_result \in BOOLEAN, f \in ReasonFaults :
          Becomes(_atf_tc_require_errno(
                      Entered(Self, "atf_tc_require_errno",
                              <<exp_errno, actual_errno, expr_result>>),
                      loc[1], loc[2], exp_errno, ExprStr, expr_result,
                      actual_errno, f))

\* atf_tc_cleanup: the process state and the error returned.
\* io.cleanup_calls counts the calls of the cleanup callback.
atf_tc_cleanup(p, t) ==
    [p |-> IF t.m_cleanup # NULL
           THEN [p EXCEPT !.io.cleanup_calls = @ + 1] ELSE p,
     err |-> OK]

\* What the harness can call on a test case once atf_tc_init has returned
\* it, and after atf_tc_run if atf_tc_run returns.
HarnessHasControl == pc \in {"ready", "returned"}

TcCleanup ==
    /\ HarnessHasControl
    /\ io.cleanup_calls < MaxCleanups
    /\ LET r == atf_tc_cleanup([Self EXCEPT !.call.name = "atf_tc_cleanup",
                                            !.call.ret = NULL], tc)
       IN  Becomes([r.p EXCEPT !.call.ret = r.err])

TcFini ==
    /\ HarnessHasControl
    /\ Becomes([Self EXCEPT !.call.name = "atf_tc_fini",
                            !.call.ret = NULL,
                            !.tc = atf_tc_fini(tc),
                            !.pc = "finished"])

----------------------------------------------------------------------------
(* The specification of a run: a constructed test case, then atf_tc_run. *)

\* The process before anything has run: Current is zero-initialised.
Boot(path, execs, old) ==
    [pc |-> "new", status |-> "none", tc |-> NoTc,
     Current |-> [tc |-> NULL, resfile |-> NULL, fail_count |-> 0],
     files |-> [n \in {ResFileName} |-> old],
     stdout |-> <<>>, stderr |-> <<>>,
     env |-> [PATH |-> path, execs |-> execs],
     io |-> [resfile_calls |-> 0, record |-> NULL, fopens |-> 0,
             fcloses |-> 0, open |-> {"stdout", "stderr"},
             dynstr_inits |-> 0, dynstr_finis |-> 0,
             probes |-> <<>>, getenv |-> 0, dir_calls |-> 0,
             dir_errors |-> 0, head_calls |-> 0, cleanup_calls |-> 0],
     call |-> [name |-> "none", n |-> 0, arg |-> <<>>, ret |-> NULL]]

Init ==
    \E path \in PathValues, execs \in ExecSets, old \in OldContents :
        LET r == atf_tc_init(Boot(path, execs, old), RunIdent, NullHead,
                             "body", NULL, NullConfig, NoFault)
        IN  /\ r.err = OK
            /\ Starts([r.p EXCEPT !.pc = "ready"])

Next ==
    \/ atf_tc_run
    \/ BodyReturn
    \/ atf_tc_fail
    \/ atf_tc_fail_nonfatal
    \/ atf_tc_fail_check
    \/ atf_tc_fail_requirement
    \/ atf_tc_pass
    \/ atf_tc_require_prog
    \/ atf_tc_skip
    \/ atf_tc_check_errno
    \/ atf_tc_require_errno
    \/ TcCleanup
    \/ TcFini

Spec == Init /\ [][Next]_vars

----------------------------------------------------------------------------
(* The specification of the test-case object: construction and getters. *)

InitFaults == {Fault(s, 0) : s \in {"none", "map_init", "set_ident",
                                    "set_has_cleanup"}}

TcInit ==
    /\ pc = "new"
    /\ \E ident \in Idents, head \in Heads, cleanup \in Cleanups,
          config \in Configs, f \in InitFaults :
          LET r == atf_tc_init(Enter(Self, "atf_tc_init", <<ident>>),
                               ident, head, "body", cleanup, config, f)
          IN  Becomes(IF Alive(r.p)
                      THEN [r.p EXCEPT
                              !.pc = IF r.err = OK THEN "ready"
                                     ELSE "init_failed",
                              !.call.ret = r.err]
                      ELSE r.p)

TcGetIdent ==
    /\ pc = "ready"
    /\ call.name = "atf_tc_init"
    /\ Becomes([Self EXCEPT !.call.name = "atf_tc_get_ident",
                            !.call.ret = atf_tc_get_ident(tc)])

\* The getters of the configuration, called on a constructed test case.
TcGetConfigVarWd ==
    /\ pc = "ready"
    /\ \E name \in ConfigKeys, defval \in Defaults :
          LET p == [Self EXCEPT !.call.name = "atf_tc_get_config_var_wd",
                                !.call.arg = <<call.arg[1], name, defval>>,
                                !.call.ret = NULL]
              r == atf_tc_get_config_var_wd(p, tc, name, defval)
          IN  Becomes(IF Alive(r.p) THEN [r.p EXCEPT !.call.ret = r.val]
                      ELSE r.p)

TcHasConfigVar ==
    /\ pc = "ready"
    /\ \E name \in ConfigKeys :
          Becomes([Self EXCEPT !.call.name = "atf_tc_has_config_var",
                               !.call.arg = <<call.arg[1], name>>,
                               !.call.ret = atf_tc_has_config_var(tc, name)])

InitTc == Starts(Boot(<<"/d1">>, {}, <<>>))

NextTc ==
    \/ TcInit
    \/ TcGetIdent
    \/ TcGetConfigVarWd
    \/ TcHasConfigVar
    \/ TcCleanup
    \/ TcFini

SpecTc == InitTc /\ [][NextTc]_vars

----------------------------------------------------------------------------
(* What a harness can observe of a run. *)

OutcomeWords == {"passed", "failed", "skipped"}

Last(q) == q[Len(q)]

\* atf_tc_run has installed the context.
InRun == Current.tc # NULL

\* Every message a reason can carry, and every reason.
Messages ==
    Fmts
    \cup {"Expected errno " \o ToString(e) \o ", got " \o ToString(a)
              \o ", in " \o ExprStr : e \in Errnos, a \in Errnos}
    \cup {"Expected true value in " \o ExprStr}
    \cup {"The required program " \o Concat(g) \o " could not be found" :
              g \in Progs}
    \cup {"The required program " \o Concat(g)
              \o " could not be found in the PATH" : g \in Progs}
    \cup {ToString(n) \o " checks failed; see output for more details" :
              n \in (0 - Pow2(SizeBits))..Pow2(SizeBits)}
AllReasons ==
    Messages \cup {l[1] \o ":" \o ToString(l[2]) \o ": " \o m :
                       l \in Locations, m \in Messages}

\* The well-formed result records: one newline-terminated line each.
RecordLines ==
    {w \o "\n" : w \in OutcomeWords}
    \cup {w \o ": " \o r \o "\n" : w \in OutcomeWords, r \in AllReasons}

CheckLines == {"*** Check failed: " \o r \o "\n" : r \in AllReasons}

\* What this run has put at its result destination.
DestChunks ==
    IF ~InRun THEN <<>>
    ELSE IF Current.resfile = "/dev/stdout" THEN stdout
    ELSE IF Current.resfile = "/dev/stderr" THEN stderr
    ELSE IF io.fopens = 0 THEN <<>>
    ELSE files[Current.resfile]

NumRecords ==
    Cardinality({i \in DOMAIN DestChunks : DestChunks[i] \in RecordLines})

NumCheckLines ==
    Cardinality({i \in DOMAIN stderr : stderr[i] \in CheckLines})

\* The step is the body entering one of the named public functions.
Calls(names) == call'.n = call.n + 1 /\ call'.name \in names

----------------------------------------------------------------------------
(* The claims. *)

\* C1: no run has more than one result record at its destination, and a run
\* that has ended by exit() has exactly one there.  (A run cut short by a
\* fatal framework error ends by abort(), not by an outcome.)
C1_ExactlyOneRecord ==
    /\ NumRecords <= 1
    /\ (InRun /\ pc = "exited") => NumRecords = 1

\* C2: a step that enters atf_tc_pass, atf_tc_fail, atf_tc_fail_requirement
\* or atf_tc_skip ends the process, and a process that has ended takes no
\* further step; a step that enters atf_tc_fail_check or atf_tc_fail_nonfatal
\* and is not cut short by a fatal error returns to the body with the
\* deferred-failure counter greater by exactly 1.
C2_TerminalAndDeferred ==
    [][ /\ pc \notin {"exited", "aborted"}
        /\ Calls({"atf_tc_pass", "atf_tc_fail", "atf_tc_fail_requirement",
                  "atf_tc_skip"})
              => pc' \in {"exited", "aborted"}
        /\ (Calls({"atf_tc_fail_check", "atf_tc_fail_nonfatal"})
              /\ pc' # "aborted")
              => /\ pc' = "body"
                 /\ Current'.fail_count = Current.fail_count + 1 ]_vars

C2_Witness ==
    /\ pc = "exited"
    /\ call.name = "atf_tc_skip"
    /\ call.n = 2
    /\ Current.fail_count = 1

\* C3: when the body has returned normally and the run has ended by exit(),
\* the record handed to the writer is `passed` if no "*** Check failed" line
\* was put out, and otherwise `failed` with the reason "<N> checks failed;
\* see output for more details", N being the number of such lines.
C3_CounterDecides ==
    (pc = "exited" /\ call.name = "return")
        => io.record =
               IF NumCheckLines = 0 THEN <<"passed", NULL>>
               ELSE <<"failed", ToString(NumCheckLines)
                          \o " checks failed; see output for more details">>

\* C4: a process that has exited has status EXIT_FAILURE iff the record is
\* `failed` and EXIT_SUCCESS iff it is `passed` or `skipped`, and by then the
\* record is at the destination in full and every opened file is closed.
C4_StatusAgrees ==
    pc = "exited"
        => /\ io.record # NULL
           /\ (status = "EXIT_FAILURE") = (io.record[1] = "failed")
           /\ (status = "EXIT_SUCCESS")
                  = (io.record[1] \in {"passed", "skipped"})
           /\ DestChunks # <<>>
           /\ Last(DestChunks) = Line(io.record[1], io.record[2])
           /\ io.fopens = io.fcloses

\* C5: after a run that has exited with a file as its destination, reading
\* the file back gives exactly "passed\n" for passed and "<word>: <reason>\n"
\* for failed and skipped, whatever the file held before.
C5_RoundTrip ==
    (pc = "exited" /\ InRun /\ Current.resfile = ResFileName)
        => /\ io.record[1] \in OutcomeWords
           /\ (io.record[1] = "passed") = (io.record[2] = NULL)
           /\ Concat(files[ResFileName]) =
                  IF io.record[1] = "passed" THEN "passed\n"
                  ELSE io.record[1] \o ": " \o io.record[2] \o "\n"

\* C6: a process whose record did not reach the destination in full has not
\* ended with a normal exit status.
C6_NoExitWithoutRecord ==
    (InRun /\ status \in {"EXIT_SUCCESS", "EXIT_FAILURE"})
        => \E i \in DOMAIN DestChunks : DestChunks[i] \in RecordLines

\* A path, as a caller sees it: absolute, or relative with or without a
\* directory part.
StartsAtRoot(path) == Len(path) > 0 /\ path[1] = "/"
HasSlash(path) == \E i \in DOMAIN path : path[i] = "/"

\* C7: a step that enters atf_tc_require_prog with an absolute name and is
\* not cut short by a fatal error consults no PATH; it returns to the body,
\* leaving the context, the streams and the files as they were, iff the path
\* is executable; otherwise the record handed to the writer is `skipped` with
\* the reason "The required program <name> could not be found" and the
\* process exits with EXIT_SUCCESS.
C7_AbsoluteProg ==
    [][ (Calls({"atf_tc_require_prog"}) /\ StartsAtRoot(call'.arg)
           /\ pc' # "aborted")
          => /\ io'.getenv = 0
             /\ (pc' = "body") = (Concat(call'.arg) \in env.execs)
             /\ pc' = "body"
                  => /\ Current' = Current
                     /\ stdout' = stdout /\ stderr' = stderr
                     /\ files' = files
                     /\ io'.resfile_calls = 0
                     /\ status' = "none"
             /\ pc' # "body"
                  => /\ pc' = "exited"
                     /\ status' = "EXIT_SUCCESS"
                     /\ io'.record =
                          <<"skipped", "The required program "
                                \o Concat(call'.arg)
                                \o " could not be found">> ]_vars

C7_Witness ==
    /\ call.name = "atf_tc_require_prog"
    /\ StartsAtRoot(call.arg)
    /\ pc = "exited"
    /\ io.record # NULL
    /\ io.record[1] = "skipped"
    /\ NumRecords = 1

\* The probes a search for `name` makes over the directories `dirs` when the
\* executables are `execs`: each directory in order, up to the first hit.
RECURSIVE ExpectedProbes(_, _, _)
ExpectedProbes(dirs, name, execs) ==
    IF dirs = <<>> THEN <<>>
    ELSE LET c == Head(dirs) \o "/" \o name
         IN  IF c \in execs THEN <<c>>
             ELSE <<c>> \o ExpectedProbes(Tail(dirs), name, execs)

\* C8: a step that enters atf_tc_require_prog with a relative name without
\* directory part and is not cut short by a fatal error has probed
\* <dir>/<name> for each directory of PATH in order, up to and including the
\* first hit and none after it; it returns to the body, having written
\* nothing, iff there was a hit; otherwise the record handed to the writer is
\* `failed` with the reason "The required program <name> could not be found
\* in the PATH" and the process exits with EXIT_FAILURE.
C8_PathSearch ==
    [][ (Calls({"atf_tc_require_prog"}) /\ ~StartsAtRoot(call'.arg)
           /\ ~HasSlash(call'.arg) /\ pc' # "aborted")
          => LET name == Concat(call'.arg)
                 dirs == SplitWords(env.PATH, ":", "")
                 hit == \E i \in DOMAIN dirs :
                            (dirs[i] \o "/" \o name) \in env.execs
             IN  /\ io'.probes = ExpectedProbes(dirs, name, env.execs)
                 /\ (pc' = "body") = hit
                 /\ pc' = "body"
                      => /\ Current' = Current
                         /\ stdout' = stdout /\ stderr' = stderr
                         /\ files' = files
                         /\ io'.resfile_calls = 0
                 /\ pc' # "body"
                      => /\ pc' = "exited"
                         /\ status' = "EXIT_FAILURE"
                         /\ io'.record =
                              <<"failed", "The required program " \o name
                                    \o " could not be found in the PATH">> ]_vars

\* The tool is only under the second of two directories, and is found.
C8_Witness ==
    /\ call.name = "atf_tc_require_prog"
    /\ call.arg = <<"ls">>
    /\ env.PATH = <<"/d1", ":", "/d2">>
    /\ "/d1/ls" \notin env.execs
    /\ io.probes = <<"/d1/ls", "/d2/ls">>
    /\ pc = "body"

\* C9: after atf_tc_require_prog was entered in a run with a relative name
\* that has a directory part, the process has aborted with a diagnostic on
\* stderr, no path was probed and no result record was handed to the writer
\* or put at the destination.
C9_RelativeWithDirIsFatal ==
    (InRun /\ call.name = "atf_tc_require_prog" /\ ~StartsAtRoot(call.arg)
       /\ HasSlash(call.arg))
      => /\ pc = "aborted"
         /\ status = "SIGABRT"
         /\ \E i \in DOMAIN stderr :
                stderr[i] \in {"FATAL ERROR: ", "FATAL ERROR: no_memory\n"}
         /\ io.probes = <<>>
         /\ io.resfile_calls = 0
         /\ NumRecords = 0

C9_Witness ==
    /\ call.name = "atf_tc_require_prog"
    /\ call.arg = <<"sub", "/", "ls">>
    /\ pc = "aborted"
    /\ Len(stderr) >= 3
    /\ SubSeq(stderr, Len(stderr) - 2, Len(stderr)) =
           <<"FATAL ERROR: ",
             "Relative paths are not allowed when searching for a program "
                 \o "(sub/ls)",
             "\n">>

\* The head callback sets `ident`, and the last value it gives it differs
\* from the identifier.
HeadChangesIdent(head, ident) ==
    /\ ~head.null
    /\ LET at == {i \in DOMAIN head.sets : head.sets[i][1] = "ident"}
       IN  /\ at # {}
           /\ head.sets[CHOOSE i \in at : \A j \in at : j <= i][2] # ident

\* C10: atf_tc_get_ident right after atf_tc_init returns the identifier given
\* to atf_tc_init; once atf_tc_init has returned without error the `ident`
\* metadata variable is that identifier; and when the head callback has run
\* and changed `ident`, atf_tc_init has aborted the process.
C10_IdentImmutable ==
    /\ call.name = "atf_tc_get_ident" => call.ret = call.arg[1]
    /\ pc = "ready"
         => /\ "ident" \in DOMAIN tc.m_vars
            /\ tc.m_vars["ident"] = call.arg[1]
    /\ (call.name = "atf_tc_init" /\ tc.map = "live"
          /\ HeadChangesIdent(tc.m_head, call.arg[1]))
         => /\ pc = "aborted"
            /\ status = "SIGABRT"

C10_Witness ==
    /\ call.name = "atf_tc_init"
    /\ HeadChangesIdent(tc.m_head, call.arg[1])
    /\ pc = "aborted"
    /\ tc.m_vars["ident"] # tc.m_ident

\* The reason of an errno check that was given the errnos `exp` and `act` and
\* the value `res` of the expression, at one of the source locations.
ErrnoReasons(exp, act, res) ==
    LET msg == IF ~res THEN "Expected true value in " \o ExprStr
               ELSE "Expected errno " \o ToString(exp) \o ", got "
                        \o ToString(act) \o ", in " \o ExprStr
    IN  {l[1] \o ":" \o ToString(l[2]) \o ": " \o msg : l \in Locations}

\* C11: a step that enters atf_tc_check_errno or atf_tc_require_errno and is
\* not cut short by a fatal error reports a violation exactly when it is not
\* the case that the expression was true and the observed errno is the
\* expected one.  Without violation it returns to the body and nothing is
\* written and the context is unchanged.  On violation the reason is
\* "Expected true value in <expr>" when the expression was false and
\* "Expected errno X, got Y, in <expr>" otherwise; atf_tc_require_errno hands
\* a `failed` record with that reason to the writer and exits with
\* EXIT_FAILURE; atf_tc_check_errno puts the "*** Check failed" line with
\* that reason on stderr, adds exactly 1 to the counter and returns.
C11_ErrnoChecks ==
    [][ (Calls({"atf_tc_check_errno", "atf_tc_require_errno"})
           /\ pc' # "aborted")
          => LET exp == call'.arg[1]
                 act == call'.arg[2]
                 res == call'.arg[3]
                 violation == ~(res /\ act = exp)
                 reasons == ErrnoReasons(exp, act, res)
             IN  /\ ~violation
                      => /\ pc' = "body"
                         /\ Current' = Current
                         /\ stdout' = stdout /\ stderr' = stderr
                         /\ files' = files
                         /\ io'.resfile_calls = io.resfile_calls
                 /\ (violation /\ call'.name = "atf_tc_require_errno")
                      => /\ pc' = "exited"
                         /\ status' = "EXIT_FAILURE"
                         /\ io'.resfile_calls = io.resfile_calls + 1
                         /\ io'.record[1] = "failed"
                         /\ io'.record[2] \in reasons
                 /\ (violation /\ call'.name = "atf_tc_check_errno")
                      => /\ pc' = "body"
                         /\ Current'.fail_count = Current.fail_count + 1
                         /\ \E r \in reasons :
                                stderr' = Append(stderr,
                                    "*** Check failed: " \o r \o "\n")
                         /\ stdout' = stdout /\ files' = files
                         /\ io'.resfile_calls = io.resfile_calls ]_vars

\* The expression was true with another errno than expected: the check
\* variant has counted one failure and returned.
C11_Witness ==
    /\ call.name = "atf_tc_check_errno"
    /\ call.arg = <<2, 13, TRUE>>
    /\ pc = "body"
    /\ Current.fail_count = 1
    /\ stderr = <<"*** Check failed: t.c:7: Expected errno 2, got 13, in "
                     \o ExprStr \o "\n">>

\* C12: atf_tc_get_config_var_wd has always returned, with the stored value
\* when the configuration is present and holds the key and with the default
\* given otherwise (configuration absent, or present without the key); and
\* atf_tc_has_config_var has returned false whenever the configuration is
\* absent.
C12_ConfigVarWithDefault ==
    /\ call.name = "atf_tc_get_config_var_wd"
         => /\ pc = "ready"
            /\ call.ret =
                  IF tc.m_config.null THEN call.arg[3]
                  ELSE IF call.arg[2] \in DOMAIN tc.m_config.map
                  THEN tc.m_config.map[call.arg[2]]
                  ELSE call.arg[3]
    /\ call.name = "atf_tc_has_config_var"
         => /\ pc = "ready"
            /\ tc.m_config.null => call.ret = FALSE
            /\ call.ret = TRUE => call.arg[2] \in DOMAIN tc.m_config.map

\* A configuration that is present and holds another key than the one asked
\* for gives the default.
C12_Witness ==
    /\ call.name = "atf_tc_get_config_var_wd"
    /\ ~tc.m_config.null
    /\ DOMAIN tc.m_config.map = {"key"}
    /\ call.arg[2] = "other"
    /\ call.ret = "dflt"

\* C13 as claimed: in every run that has exited, a `passed` record comes with
\* no "*** Check failed" line, a `skipped` record with nothing on the streams
\* but the record itself, and a `failed` record with one or more
\* "*** Check failed" lines.
C13_OutputByOutcome ==
    (pc = "exited" /\ InRun /\ io.record # NULL)
        => /\ io.record[1] = "passed" => NumCheckLines = 0
           /\ io.record[1] = "skipped"
                => /\ NumCheckLines = 0
                   /\ \A i \in DOMAIN stderr : stderr[i] \in RecordLines
                   /\ \A i \in DOMAIN stdout : stdout[i] \in RecordLines
           /\ io.record[1] = "failed" => NumCheckLines >= 1

\* C13 as amended: the step that ends a run by exit() adds nothing to the
\* streams and the files but the result record at the destination, whatever
\* "*** Check failed" lines came before it; and when it is the body that
\* returned, the record is `passed` iff the deferred-failure counter is 0, a
\* `passed` record comes with no "*** Check failed" line and a `failed`
\* record with one or more.
C13_OutputByReturn ==
    [][ (pc # "exited" /\ pc' = "exited")
          => LET line == Line(io'.record[1], io'.record[2])
                 dest == Current.resfile
             IN  /\ io'.resfile_calls = io.resfile_calls + 1
                 /\ stdout' = IF dest = "/dev/stdout"
                              THEN Append(stdout, line) ELSE stdout
                 /\ stderr' = IF dest = "/dev/stderr"
                              THEN Append(stderr, line) ELSE stderr
                 /\ dest = ResFileName
                      => files'[ResFileName] \in {<<line>>, <<>>}
                 /\ dest # ResFileName => files' = files
                 /\ call'.name = "return"
                      => /\ (io'.record[1] = "passed")
                              = (Current.fail_count = 0)
                         /\ io'.record[1] \in {"passed", "failed"}
                         /\ io'.record[1] = "passed" => NumCheckLines = 0
                         /\ io'.record[1] = "failed" => NumCheckLines >= 1
    ]_vars

\* The body returned after two deferred failures, with stderr as the result
\* destination: two lines, then the record.
C13_Witness ==
    /\ pc = "exited"
    /\ call.name = "return"
    /\ Current.resfile = "/dev/stderr"
    /\ Len(stderr) = 3
    /\ stderr[1] \in CheckLines /\ stderr[2] \in CheckLines
    /\ stderr[3] \in RecordLines
    /\ io.record[1] = "failed"

\* The outcome primitives.
Primitives ==
    {"atf_tc_pass", "atf_tc_fail", "atf_tc_fail_nonfatal",
     "atf_tc_fail_check", "atf_tc_fail_requirement", "atf_tc_skip",
     "atf_tc_require_prog", "atf_tc_check_errno", "atf_tc_require_errno"}

\* C14: a step that enters an outcome primitive before atf_tc_run has
\* installed the context ends in abort() with the precondition reported on
\* stderr; it hands no record to the writer, writes nothing to stdout or the
\* files and leaves the context, the counter included, as it was.  A step
\* that enters one from the body finds the context installed and reports no
\* precondition.
C14_NeedsContext ==
    [][ Calls(Primitives)
          => /\ ~InRun
                  => /\ pc' = "aborted"
                     /\ status' = "SIGABRT"
                     /\ stderr' = Append(stderr,
                                        "Precondition check failed\n")
                     /\ Current' = Current
                     /\ io'.resfile_calls = io.resfile_calls
                     /\ io'.record = io.record
                     /\ stdout' = stdout
                     /\ files' = files
             /\ pc = "body"
                  => /\ InRun
                     /\ \A i \in DOMAIN stderr' :
                            stderr'[i] # "Precondition check failed\n" ]_vars

C14_Witness ==
    /\ call.name = "atf_tc_fail_nonfatal"
    /\ call.n = 1
    /\ ~InRun
    /\ pc = "aborted"
    /\ Current.fail_count = 0
    /\ stderr = <<"Precondition check failed\n">>

\* C15: whenever the process has ended or control is back in the body, every
\* reason that was created (an initialised atf_dynstr_t) has been released
\* exactly once: as many atf_dynstr_fini calls as successful initialisations,
\* one reason being live at a time.
C15_ReasonReleasedOnce ==
    io.dynstr_finis = io.dynstr_inits

\* C16: after a step in which create_resfile ran, every file it opened is
\* closed and stdout and stderr are open, whether the step wrote the record
\* or failed to.  With /dev/stdout or /dev/stderr as the destination no file
\* was opened, the files are as they were and the text went to that stream;
\* with a file as the destination the streams got no record, and the file,
\* once opened, holds nothing of what it held before.
C16_HandlesClosed ==
    [][ io'.resfile_calls # io.resfile_calls
          => LET dest == Current.resfile
                 line == Line(io'.record[1], io'.record[2])
                 texts == {<<>>, <<io'.record[1]>>, <<line>>}
                 wrote(old, new) ==
                     \E t \in texts :
                         /\ SubSeq(new, 1, Len(old) + Len(t)) = old \o t
                         /\ pc' = "exited" => t = <<line>>
             IN  /\ io'.open = {"stdout", "stderr"}
                 /\ io'.fopens = io'.fcloses
                 /\ dest = "/dev/stdout"
                      => /\ io'.fopens = io.fopens
                         /\ files' = files
                         /\ wrote(stdout, stdout')
                 /\ dest = "/dev/stderr"
                      => /\ io'.fopens = io.fopens
                         /\ files' = files
                         /\ stdout' = stdout
                         /\ wrote(stderr, stderr')
                 /\ dest = ResFileName
                      => /\ stdout' = stdout
                         /\ pc' = "exited" => stderr' = stderr
                         /\ io'.fopens \in {io.fopens, io.fopens + 1}
                         /\ io'.fopens = io.fopens
                              => pc' = "aborted" /\ files' = files
                         /\ io'.fopens = io.fopens + 1
                              => files'[dest] \in texts ]_vars

\* The write to a file that held a record failed half way: the file was
\* truncated and is closed, and the process has aborted.
C16_Witness ==
    /\ pc = "aborted"
    /\ InRun
    /\ Current.resfile = ResFileName
    /\ io.fopens = 1
    /\ io.fcloses = 1
    /\ io.open = {"stdout", "stderr"}
    /\ files[ResFileName] = <<"failed">>
    /\ Last(stderr) = "FATAL ERROR: Failed to write results file\n"

\* C17: a step that enters atf_tc_require_prog in a run with a name without
\* directory part and reaches the search visits every directory of PATH,
\* whatever the probe of an earlier directory came to; and when one of the
\* directories holds the program, the step returns to the body: no error of
\* a directory's probe aborts the process or ends the test.
C17_BestEffort ==
    [][ (Calls({"atf_tc_require_prog"}) /\ InRun /\ ~HasSlash(call'.arg)
           /\ io'.dir_calls > 0)
          => LET name == Concat(call'.arg)
                 dirs == SplitWords(env.PATH, ":", "")
                 hit == \E i \in DOMAIN dirs :
                            (dirs[i] \o "/" \o name) \in env.execs
             IN  /\ io'.dir_calls = Len(dirs)
                 /\ hit => pc' = "body" ]_vars

\* The head callback sets the metadata variable `name`.
HeadSets(head, name) ==
    /\ ~head.null
    /\ \E i \in DOMAIN head.sets : head.sets[i][1] = name

\* The value the head callback gives last to the variable `name`.
HeadValue(head, name) ==
    LET at == {i \in DOMAIN head.sets : head.sets[i][1] = name}
    IN  head.sets[CHOOSE i \in at : \A j \in at : j <= i][2]

\* What atf_tc_init does with a construction-time error: it returns the
\* error, the process lives and has written nothing, the head callback was
\* not called and the metadata store is not left created; and the process
\* aborts in atf_tc_init only after it has called a head that changed
\* `ident`.
InitErrorIsReturned ==
    /\ pc = "init_failed"
         => /\ call.name = "atf_tc_init"
            /\ call.ret \notin {OK, NULL}
            /\ status = "none"
            /\ stderr = <<>> /\ stdout = <<>>
            /\ io.head_calls = 0
            /\ tc.map \in {"none", "released"}
            /\ tc.m_vars = EmptyMap
    /\ pc = "aborted"
         => /\ io.head_calls = 1
            /\ tc.map = "live"
            /\ HeadChangesIdent(tc.m_head, tc.m_ident)
    /\ pc = "ready"
         => /\ tc.map = "live"
            /\ io.head_calls = IF tc.m_head.null THEN 0 ELSE 1
            /\ "ident" \in DOMAIN tc.m_vars
            /\ tc.m_vars["ident"] = tc.m_ident

\* C18 as claimed: a construction-time error is returned as said above, and
\* on success the store holds `has.cleanup` = "true" if a cleanup callback
\* was supplied and, when the head does not set it, only then.
C18_InitSeedsStore ==
    /\ InitErrorIsReturned
    /\ pc = "ready"
         => /\ tc.m_cleanup # NULL
                 => /\ "has.cleanup" \in DOMAIN tc.m_vars
                    /\ tc.m_vars["has.cleanup"] = "true"
            /\ (tc.m_cleanup = NULL /\ ~HeadSets(tc.m_head, "has.cleanup"))
                 => "has.cleanup" \notin DOMAIN tc.m_vars

\* C18 as amended: as claimed, but on success the store holds what the head
\* callback gave `has.cleanup` when it sets it, and otherwise `has.cleanup`
\* = "true" if a cleanup callback was supplied and no `has.cleanup` if none
\* was.
C18_InitSeedsThenHead ==
    /\ InitErrorIsReturned
    /\ pc = "ready"
         => IF HeadSets(tc.m_head, "has.cleanup")
            THEN /\ "has.cleanup" \in DOMAIN tc.m_vars
                 /\ tc.m_vars["has.cleanup"]
                        = HeadValue(tc.m_head, "has.cleanup")
            ELSE IF tc.m_cleanup # NULL
            THEN /\ "has.cleanup" \in DOMAIN tc.m_vars
                 /\ tc.m_vars["has.cleanup"] = "true"
            ELSE "has.cleanup" \notin DOMAIN tc.m_vars

\* Setting `has.cleanup` failed: the store was created and is released, and
\* the error is the return value.
C18_Witness ==
    /\ pc = "init_failed"
    /\ call.ret = "no_memory"
    /\ tc.m_cleanup # NULL
    /\ ~tc.m_head.null
    /\ tc.map = "released"
    /\ io.head_calls = 0

\* C19: after every step, within a run and while the lines fit the counter,
\* the deferred-failure counter is the number of "*** Check failed" lines on
\* stderr; the step that starts the body leaves it 0; a step changes it
\* only by entering atf_tc_fail_check, atf_tc_fail_nonfatal or
\* atf_tc_check_errno, and then by exactly +1 and never to 0; and no step of
\* a primitive changes the test case or the result destination of the
\* context.
C19_CounterCountsLines ==
    [][ /\ (InRun' /\ NumCheckLines' < Pow2(SizeBits))
              => Current'.fail_count = NumCheckLines'
        /\ (pc = "ready" /\ pc' = "body") => Current'.fail_count = 0
        /\ ~InRun' => Current'.fail_count = 0 /\ NumCheckLines' = 0
        /\ Current'.fail_count # Current.fail_count
              => /\ Calls({"atf_tc_fail_check", "atf_tc_fail_nonfatal",
                           "atf_tc_check_errno"})
                 /\ Current'.fail_count = Current.fail_count + 1
                 /\ Current'.fail_count > 0
                 /\ NumCheckLines' = NumCheckLines + 1
        /\ NumCheckLines' # NumCheckLines
              => Current'.fail_count # Current.fail_count
        /\ (Calls(Primitives) \/ call'.name = "return")
              => /\ Current'.tc = Current.tc
                 /\ Current'.resfile = Current.resfile ]_vars

C19_Witness ==
    /\ pc = "body"
    /\ call.name = "atf_tc_check_errno"
    /\ call.n = 2
    /\ Current.fail_count = 2
    /\ NumCheckLines = 2

\* The reasons of the reduction of atf_tc_run.
SummaryReasons ==
    {ToString(n) \o " checks failed; see output for more details" :
         n \in (0 - Pow2(SizeBits))..Pow2(SizeBits)}

\* C20: with a counter of at least 1, a step that enters atf_tc_pass and is
\* not cut short by a fatal error hands `passed` to the writer and exits with
\* EXIT_SUCCESS; one that enters atf_tc_skip, or atf_tc_require_prog with an
\* absolute name that is not executable, hands `skipped` to the writer and
\* exits with EXIT_SUCCESS; the return of the body hands `failed` to the
\* writer and exits with EXIT_FAILURE; and the record of the deferred
\* failures ("<N> checks failed; ...") is handed to the writer by no step
\* but the return of the body.
C20_TerminalDecides ==
    [][ /\ (Current.fail_count >= 1 /\ pc' # "aborted")
              => /\ Calls({"atf_tc_pass"})
                      => /\ pc' = "exited"
                         /\ status' = "EXIT_SUCCESS"
                         /\ io'.record = <<"passed", NULL>>
                 /\ (Calls({"atf_tc_skip"})
                       \/ (/\ Calls({"atf_tc_require_prog"})
                           /\ StartsAtRoot(call'.arg)
                           /\ Concat(call'.arg) \notin env.execs))
                      => /\ pc' = "exited"
                         /\ status' = "EXIT_SUCCESS"
                         /\ io'.record[1] = "skipped"
                 /\ (pc = "body" /\ call'.name = "return")
                      => /\ pc' = "exited"
                         /\ status' = "EXIT_FAILURE"
                         /\ io'.record[1] = "failed"
                         /\ io'.record[2] \in SummaryReasons
        /\ (/\ io'.resfile_calls # io.resfile_calls
            /\ io'.record[1] = "failed"
            /\ io'.record[2] \in SummaryReasons)
              => /\ call'.name = "return"
                 /\ Current.fail_count >= 1 ]_vars

\* atf_tc_pass after one deferred failure: `passed`, success.
C20_Witness ==
    /\ pc = "exited"
    /\ call.name = "atf_tc_pass"
    /\ Current.fail_count = 1
    /\ NumCheckLines = 1
    /\ status = "EXIT_SUCCESS"
    /\ io.record = <<"passed", NULL>>
    /\ NumRecords = 1

\* C21: atf_tc_run never returns: no step leaves the process in the state
\* where atf_tc_run has returned; the step in which the body returns ends
\* the process, by exit() with the status of the record or by abort(); a
\* process that has ended takes no step; and atf_tc_cleanup and atf_tc_fini
\* are never entered once atf_tc_run has installed the context.
C21_RunNeverReturns ==
    [][ /\ pc' # "returned"
        /\ (pc = "body" /\ call'.name = "return")
              => \/ pc' = "exited"
                       /\ status' \in {"EXIT_SUCCESS", "EXIT_FAILURE"}
                 \/ pc' = "aborted" /\ status' = "SIGABRT"
        /\ pc \notin {"exited", "aborted"}
        /\ InRun => /\ call'.name \notin {"atf_tc_cleanup", "atf_tc_fini"}
                    /\ io'.cleanup_calls = io.cleanup_calls
                    /\ tc' = tc ]_vars

\* The body has returned after a deferred failure and the reduction has
\* ended the process.
C21_Witness ==
    /\ call.name = "return"
    /\ pc = "exited"
    /\ status = "EXIT_FAILURE"
    /\ Current.fail_count = 1
    /\ io.record[1] = "failed"
    /\ io.cleanup_calls = 0
    /\ tc.map = "live"

====
